---- MODULE Spec2Model ----
(***************************************************************************)
(* The three queue consumers of the weather pipeline (page, user and lead  *)
(* event subscription): the BatchProcessor accumulator (AddMessage,        *)
(* StartBatchTimer) and its flush (processBatch) with the relational       *)
(* transaction, the analytical bulk insert and the ack/nack of every       *)
(* message.  One behaviour is one run of one consumer process; `kind`     *)
(* says which of the three binaries runs.                                  *)
(***************************************************************************)
EXTENDS Integers, Sequences, FiniteSets, TLC

\* Number of messages the broker delivers during one run.
MaxMsgs == 2

\* main: NewBatchProcessor(ctx, 10, 10*time.Second) (1000 for lead events),
\* scaled down.
maxBatchSize == 2

\* Goroutines: pubsub's Receive runs the callback concurrently; main starts
\* one StartBatchTimer goroutine.
Receivers == {"r1", "r2"}

TimerProc == "timer"

Procs == Receivers \cup {TimerProc}

Kinds == {"page", "user", "lead"}

\* (brand, url) of a page, (brand, lead_uuid) of a user.
Keys == {"k1", "k2"}

\* A time.Time: whole seconds and the sub-second part.  `null` is the nil
\* pointer of *time.Time / a NULL column.
NullTime == [null |-> TRUE, sec |-> 0, frac |-> 0]

Times == {[null |-> FALSE, sec |-> 1, frac |-> 0],
          [null |-> FALSE, sec |-> 1, frac |-> 5],
          [null |-> FALSE, sec |-> 2, frac |-> 0]}

ModDates == {NullTime} \cup Times

\* t.Format("2006-01-02T15:04:05Z"): the layout has no fractional seconds,
\* so the rendering keeps the seconds and drops the sub-second part.  A
\* string is a sequence; "" is <<>> (the zero value the code leaves for nil).
FormatTime(t) == IF t.null THEN <<>> ELSE <<t.sec>>

NoVal == [null |-> TRUE, sec |-> 0, frac |-> 0, sub |-> FALSE,
          name |-> "", consent |-> FALSE, ip |-> ""]

PageVal(t) == [NoVal EXCEPT !.null = t.null, !.sec = t.sec, !.frac = t.frac]

UserVal(b) == [NoVal EXCEPT !.sub = b]

LeadVal(n, c, i) == [NoVal EXCEPT !.name = n, !.consent = c, !.ip = i]

ModOf(v) == [null |-> v.null, sec |-> v.sec, frac |-> v.frac]

\* msg.Data of a PageDataPubSub message, by what processBatch does with it:
\* json.Unmarshal fails, language.Parse fails, whatlanggo disagrees with the
\* declared locale, or the page is processed.
PagePayloads ==
    {[shape |-> s, key |-> "k1", val |-> NoVal] :
        s \in {"badjson", "badlocale", "mismatch"}}
    \cup {[shape |-> "ok", key |-> "k1", val |-> PageVal(t)] : t \in ModDates}
    \cup {[shape |-> "ok", key |-> "k2", val |-> PageVal(NullTime)]}

\* msg.Data of a UserDataPubSub message.
UserPayloads ==
    {[shape |-> "badjson", key |-> "k1", val |-> NoVal]}
    \cup {[shape |-> "ok", key |-> "k1", val |-> UserVal(b)] : b \in BOOLEAN}
    \cup {[shape |-> "ok", key |-> "k2", val |-> UserVal(FALSE)]}

\* msg.Data of a LeadEventDataPubSub message.
LeadPayloads ==
    {[shape |-> "badjson", key |-> "k1", val |-> NoVal]}
    \cup {[shape |-> "ok", key |-> "k1", val |-> LeadVal(n, c, i)] :
            n \in {"page_view", "page_behavior"}, c \in BOOLEAN,
            i \in {"", "198.51.100.7"}}

Payloads(k) ==
    CASE k = "page" -> PagePayloads
      [] k = "user" -> UserPayloads
      [] k = "lead" -> LeadPayloads

VARIABLES
    kind,        \* which consumer binary runs
    data,        \* msg.Data of the i-th delivered *pubsub.Message
    acts,        \* per message: the Ack()/Nack() calls made on it, in order
    messages,    \* bp.messages
    batchMutex,  \* bp.batchMutex: "free" or the goroutine holding it
    batchTimer,  \* bp.batchTimer: TRUE while armed
    pc,          \* where each goroutine is
    arg,         \* msg argument of each receiver's AddMessage call
    tx,          \* processBatch: the *sql.Tx, "none", "open", "aborted", "done"
    txWrites,    \* rows written inside tx, not yet committed
    commitErr,   \* processBatch: err of tx.Commit(), "unset", "nil", "err"
    idx,         \* processBatch: position of the range loop
    msgsToAck,   \* processBatch: msgsToAck
    rows,        \* processBatch: rows
    ret,         \* how the last processBatch call of the lock holder ended
    db,          \* relational table page / "user": key -> <<>> or <<row>>
    bq,          \* analytical table page / user / lead_event (append only)
    crashed,     \* log.Fatal ran: the process has exited
    dec,         \* per message: the branch processBatch took for it and the
                 \* row the lookup found
    batches,     \* the batches processBatch ranged over, in order
    tick,        \* the current timer tick: buffer at fire, at lock, calls
    faults,      \* whether an external call has failed so far
    rollup,      \* aggregation jobs: the rollup tables, cell -> <<>> or <<row>>
    upsert,      \* aggregation jobs: the last upsert statement executed
    nUpserts,    \* aggregation jobs: number of upsert statements executed
    scoreIn,     \* engagement score: the monthly_metrics row of the lead
    score,       \* engagement score: <<the score column scanned>>, or <<>>
    job,         \* job run: which aggregation job the process is
    run,         \* job run: the number of the run of the job
    dpc,         \* job run: where main (the driver) is
    bi,          \* job run: index of the next row of the brands cursor
    tpc,         \* job run: where the goroutine of each brand is
    ri,          \* job run: index of the next row of each brand's iterator
    table,       \* job run: view_count by <<brand, key, period>>, 0 = no row
    purged,      \* job run: the brand's DELETE has succeeded in this run
    ups,         \* job run: upserts the brand's task has done in this run
    failed,      \* job run: the brand's task has logged an error in this run
    clean,       \* job run: no error has happened in this run
    prev,        \* job run: the table and outcome of the run before
    cba,         \* similarity job: the rows of content_based_articles
    page,        \* similarity job: age of the page by <<brand, url>>
    top,         \* top_articles job: the goroutine of one brand
    lav,         \* lead_article_view_count job: the goroutine of one brand
    coll         \* collector: requests, de-duplication cache, queue

vars == <<kind, data, acts, messages, batchMutex, batchTimer, pc, arg, tx,
          txWrites, commitErr, idx, msgsToAck, rows, ret, db, bq, crashed,
          dec, batches, tick, faults, rollup, upsert, nUpserts, scoreIn,
          score, job, run, dpc, bi, tpc, ri, table, purged, ups, failed,
          clean, prev, cba, page, top, lav, coll>>

rollupVars == <<rollup, upsert, nUpserts>>

scoreVars == <<scoreIn, score>>

runVars == <<job, run, dpc, bi, tpc, ri, table, purged, ups, failed, clean,
             prev>>

simVars == <<cba, page>>

auxVars == <<top, lav, coll>>

jobVars == <<rollupVars, scoreVars, runVars, simVars, auxVars>>

flushVars == <<tx, txWrites, commitErr, idx, msgsToAck, rows, ret>>

NoWrites == [k \in Keys |-> <<>>]

NoDec == [branch |-> "none", found |-> <<>>]

NoTick == [fire |-> <<>>, lock |-> <<>>, calls |-> <<>>, locked |-> FALSE]

\* The rollup tables whose upsert merges averages.
RollupTables == {"article_metrics", "lead_engagement_metrics", "top_articles",
                 "top_next_articles", "lead_section_article_count"}

\* The conflict key of a rollup row: (brand, url / lead_uuid / ...,
\* calculation_period).
RollupKeys == {"e1", "e2"}

Cells == RollupTables \X RollupKeys

NoRollup == [c \in Cells |-> <<>>]

NoUpsert == [cell |-> <<"", "">>, old |-> <<>>, inc |-> <<>>, ok |-> FALSE]

\* The monthly_metrics row: views, avg_time_spent and avg_reading_rate of
\* the months 1 (oldest) to 3; the averages in hundredths.
NoScoreIn == [v |-> <<0, 0, 0>>, t |-> <<0, 0, 0>>, r |-> <<0, 0, 0>>]

\* NewBatchProcessor, then main before any message is received.
ConsumerInit ==
    /\ kind \in Kinds
    /\ data = <<>>
    /\ acts = [m \in 1..MaxMsgs |-> <<>>]
    /\ messages = <<>>
    /\ batchMutex = "free"
    /\ batchTimer = TRUE
    /\ pc = [p \in Procs |-> IF p = TimerProc THEN "wait" ELSE "idle"]
    /\ arg = [p \in Receivers |-> 0]
    /\ tx = "none"
    /\ txWrites = NoWrites
    /\ commitErr = "unset"
    /\ idx = 0
    /\ msgsToAck = <<>>
    /\ rows = <<>>
    /\ ret = "none"
    /\ db = [k \in Keys |-> <<>>]
    /\ bq = <<>>
    /\ crashed = FALSE
    /\ dec = [m \in 1..MaxMsgs |-> NoDec]
    /\ batches = <<>>
    /\ tick = NoTick
    /\ faults = FALSE

\* No upsert statement has run.
RollupIdle ==
    /\ rollup = NoRollup
    /\ upsert = NoUpsert
    /\ nUpserts = 0

\* No engagement score has been asked for.
ScoreIdle ==
    /\ scoreIn = NoScoreIn
    /\ score = <<>>

\* The rows of SELECT name FROM brand, in cursor order.
Brands == <<"b1", "b2">>

BrandSet == {Brands[i] : i \in 1..Len(Brands)}

\* The keys of the rows the analytical query of a brand returns, in order.
ResultKeys == <<"k1", "k2">>

\* calculation_period: before the retention window, or the current one.
Periods == {"old", "cur"}

TableKeys == BrandSet \X {ResultKeys[i] : i \in 1..Len(ResultKeys)} \X Periods

\* Every brand holds one row that has aged beyond the retention window.
StartTable == [k \in TableKeys |-> IF k[3] = "old" /\ k[2] = "k1" THEN 1 ELSE 0]

\* A job process that has just started, before the brands cursor is read.
RunStart ==
    /\ dpc = "scan"
    /\ bi = 1
    /\ tpc = [b \in BrandSet |-> "idle"]
    /\ ri = [b \in BrandSet |-> 1]
    /\ purged = [b \in BrandSet |-> FALSE]
    /\ ups = [b \in BrandSet |-> 0]
    /\ failed = [b \in BrandSet |-> FALSE]
    /\ clean = TRUE

\* No job process has been started.
RunIdle ==
    /\ job = "article_metrics"
    /\ run = 1
    /\ table = StartTable
    /\ prev = <<>>
    /\ RunStart

\* The article URLs; each brand has a page of each.
Urls == {"u", "v"}

\* The similarity job has not run: no rows, every page recent.
SimIdle ==
    /\ cba = {}
    /\ page = [k \in BrandSet \X Urls |-> "recent"]

\* The goroutine of the top_articles job has not started.
NoTop == [pc |-> "idle", articles |-> <<>>, pending |-> {}, failed |-> FALSE]

\* The leads of a brand.
Leads == {"l1", "l2"}

\* The goroutine of the lead_article_view_count job has not started.
NoLav ==
    [pc |-> "idle", rows |-> <<>>, idx |-> 1, execs |-> 0, failed |-> FALSE,
     table |-> [k \in Leads \X Periods |-> 0],
     txTable |-> [k \in Leads \X Periods |-> 0],
     before |-> [k \in Leads \X Periods |-> 0]]

\* Concurrent requests that carry the same submission, all within the TTL
\* of its cache key.
Reqs == {"q1", "q2"}

\* No request has reached the collector: the cache key is absent.
NoColl ==
    [handler |-> "lead", cache |-> FALSE, published |-> 0,
     pc |-> [q \in Reqs |-> "idle"], out |-> [q \in Reqs |-> "none"]]

AuxIdle == top = NoTop /\ lav = NoLav /\ coll = NoColl

Init ==
    ConsumerInit /\ RollupIdle /\ ScoreIdle /\ RunIdle /\ SimIdle /\ AuxIdle /\ AuxIdle

\* A Lock() that never blocks.
MutexFree_NoLock(p) == TRUE

\* sync.Mutex.Lock(): blocks until the mutex is free.
MutexFree(p) == batchMutex = "free"

\* msg.Ack() / msg.Nack() on message m.
Ack(a, m) == [a EXCEPT ![m] = Append(@, "ack")]

Nack(a, m) == [a EXCEPT ![m] = Append(@, "nack")]

RECURSIVE AckAll(_, _)
AckAll(a, ms) == IF ms = <<>> THEN a ELSE AckAll(Ack(a, Head(ms)), Tail(ms))

\* AddMessage, bp.batchMutex.Lock(): the receive callback got message
\* Len(data)+1 from the broker and entered AddMessage.
AddLock(p) ==
    /\ ~crashed
    /\ pc[p] = "idle"
    /\ Len(data) < MaxMsgs
    /\ MutexFree(p)
    /\ \E d \in Payloads(kind) :
        /\ data' = Append(data, d)
        /\ arg' = [arg EXCEPT ![p] = Len(data) + 1]
    /\ batchMutex' = p
    /\ pc' = [pc EXCEPT ![p] = "append"]
    /\ UNCHANGED <<jobVars, kind, acts, messages, batchTimer, flushVars, db, bq,
                   crashed, dec, batches, tick, faults>>

\* AddMessage: if len(bp.messages) >= bp.maxBatchSize { bp.processBatch() }.
AddCalls(ms) == IF Len(ms) >= maxBatchSize THEN "begin" ELSE "unlock"

\* AddMessage: append, then the size test.
AddAppend(p) ==
    /\ ~crashed
    /\ pc[p] = "append"
    /\ messages' = Append(messages, arg[p])
    /\ pc' = [pc EXCEPT ![p] = AddCalls(messages')]
    /\ UNCHANGED <<jobVars, kind, data, acts, batchMutex, batchTimer, arg, flushVars,
                   db, bq, crashed, dec, batches, tick, faults>>

\* StartBatchTimer: case <-bp.batchTimer.C.
TimerFire ==
    /\ ~crashed
    /\ pc[TimerProc] = "wait"
    /\ batchTimer
    /\ batchTimer' = FALSE
    /\ pc' = [pc EXCEPT ![TimerProc] = "lock"]
    /\ tick' = [NoTick EXCEPT !.fire = messages]
    /\ UNCHANGED <<jobVars, kind, data, acts, messages, batchMutex, arg, flushVars, db,
                   bq, crashed, dec, batches, faults>>

\* A tick that flushes only a full buffer.
TimerCalls_OnlyFull(ms) == IF Len(ms) >= maxBatchSize THEN "begin" ELSE "unlock"

\* StartBatchTimer: if len(bp.messages) > 0 { bp.processBatch() }.
TimerCalls(ms) == IF Len(ms) > 0 THEN "begin" ELSE "unlock"

\* StartBatchTimer: bp.batchMutex.Lock() and the test len(bp.messages) > 0.
TimerLock ==
    /\ ~crashed
    /\ pc[TimerProc] = "lock"
    /\ MutexFree(TimerProc)
    /\ batchMutex' = TimerProc
    /\ pc' = [pc EXCEPT ![TimerProc] = TimerCalls(messages)]
    /\ tick' = [tick EXCEPT !.lock = messages, !.locked = TRUE]
    /\ UNCHANGED <<jobVars, kind, data, acts, messages, batchTimer, arg, flushVars, db,
                   bq, crashed, dec, batches, faults>>

\* StartBatchTimer: bp.batchTimer.Reset(bp.maxWaitTime).
TimerReset ==
    /\ ~crashed
    /\ pc[TimerProc] = "reset"
    /\ batchTimer' = TRUE
    /\ pc' = [pc EXCEPT ![TimerProc] = "wait"]
    /\ tick' = NoTick
    /\ UNCHANGED <<jobVars, kind, data, acts, messages, batchMutex, arg, flushVars, db,
                   bq, crashed, dec, batches, faults>>

\* The deferred / explicit bp.batchMutex.Unlock(); processBatch has returned
\* and its locals are gone.
Unlock(p) ==
    /\ ~crashed
    /\ pc[p] = "unlock"
    /\ batchMutex' = "free"
    /\ pc' = [pc EXCEPT ![p] = IF p = TimerProc THEN "reset" ELSE "idle"]
    /\ tx' = "none"
    /\ txWrites' = NoWrites
    /\ commitErr' = "unset"
    /\ idx' = 0
    /\ msgsToAck' = <<>>
    /\ rows' = <<>>
    /\ ret' = "none"
    /\ arg' = [q \in Receivers |-> IF q = p THEN 0 ELSE arg[q]]
    /\ UNCHANGED <<jobVars, kind, data, acts, messages, batchTimer, db, bq, crashed,
                   dec, batches, tick, faults>>

\* What processBatch does with one message of the range loop: the Ack/Nack
\* call, whether the message is staged (rows and msgsToAck appended), the
\* state of tx afterwards, what is written, and the branch taken.
Outcome(a, st, t, w, d, f) ==
    [act |-> a, stage |-> st, tx |-> t, write |-> w, dec |-> d, fault |-> f,
     crash |-> FALSE, loc |-> ""]

\* tx.Exec of the INSERT: database/sql refuses a statement on a finished tx,
\* PostgreSQL refuses one in an aborted tx, the table's natural key refuses a
\* second row for a key already inserted in this tx; any Exec can fail in the
\* network or the server.  On failure processBatch calls tx.Rollback().
InsertOutcomes(d) ==
    {Outcome("nack", FALSE, "done", "rollback", "inserterr",
             tx = "open" /\ txWrites[d.key] = <<>>)}
    \cup (IF tx = "open" /\ txWrites[d.key] = <<>>
          THEN {Outcome("none", TRUE, tx, "tx", "insert", FALSE)}
          ELSE {})

\* tx.Exec of the page UPDATE; on failure there is no Rollback, the tx stays
\* aborted on the server.
TxUpdateOutcomes(d) ==
    {Outcome("nack", FALSE, IF tx = "open" THEN "aborted" ELSE tx, "none",
             "updateerr", tx = "open")}
    \cup (IF tx = "open"
          THEN {Outcome("none", TRUE, tx, "tx", "update", FALSE)}
          ELSE {})

\* db.Exec of the user UPDATE: outside tx, committed at once.
DbUpdateOutcomes(d) ==
    {Outcome("nack", FALSE, tx, "none", "updateerr", TRUE),
     Outcome("none", TRUE, tx, "db", "update", FALSE)}

\* getPageFromDB / getUserFromDB returning an error.
LookupError == Outcome("nack", FALSE, tx, "none", "lookuperr", TRUE)

\* The change test of the page consumer: both modification dates rendered
\* with Format, "" for nil, compared as strings.
PageChanged(row, d) == FormatTime(ModOf(row)) # FormatTime(ModOf(d.val))

\* The change test of the user consumer.
UserChanged(row, d) == row.sub # d.val.sub

\* A language mismatch that sends the message back to the broker.
MismatchOutcome_Nack == Outcome("nack", FALSE, tx, "none", "mismatch", FALSE)

\* Page consumer: the detected language differs from the declared locale:
\* msg.Ack() and continue.
MismatchOutcome == Outcome("ack", FALSE, tx, "none", "mismatch", FALSE)

\* Page consumer, body of the range loop.  getPageFromDB reads through db,
\* not through tx: it sees committed rows only.
PageOutcomes(d) ==
    IF d.shape = "badjson" THEN {Outcome("nack", FALSE, tx, "none", "badjson", FALSE)}
    ELSE IF d.shape = "badlocale"
        THEN {Outcome("nack", FALSE, tx, "none", "badlocale", FALSE)}
    ELSE IF d.shape = "mismatch"
        THEN {MismatchOutcome}
    ELSE {LookupError} \cup
         (IF db[d.key] = <<>> THEN InsertOutcomes(d)
          ELSE IF PageChanged(db[d.key][1], d) THEN TxUpdateOutcomes(d)
          ELSE {Outcome("none", FALSE, tx, "none", "noop", FALSE)})

\* User consumer, body of the range loop.
UserOutcomes(d) ==
    IF d.shape = "badjson" THEN {Outcome("nack", FALSE, tx, "none", "badjson", FALSE)}
    ELSE {LookupError} \cup
         (IF db[d.key] = <<>> THEN InsertOutcomes(d)
          ELSE IF UserChanged(db[d.key][1], d) THEN DbUpdateOutcomes(d)
          ELSE {Outcome("none", FALSE, tx, "none", "noop", FALSE)})

\* The test that guards the geo lookup in the lead event consumer.
NeedsIpLookup(v) == v.name # "page_behavior" /\ v.ip # ""

\* getIpLocation: the record's names, or log.Fatal on a lookup error.
IpLocationOutcomes ==
    {[Outcome("none", TRUE, "none", "none", "geo", FALSE) EXCEPT !.loc = "geo"],
     [Outcome("none", FALSE, "none", "none", "fatal", TRUE) EXCEPT !.crash = TRUE]}

\* Lead event consumer, body of the range loop.  (json.Marshal of the metas
\* map that json.Unmarshal just built cannot fail.)
LeadOutcomes(d) ==
    IF d.shape = "badjson" THEN {Outcome("nack", FALSE, "none", "none", "badjson", FALSE)}
    ELSE IF NeedsIpLookup(d.val) THEN IpLocationOutcomes
    ELSE {Outcome("none", TRUE, "none", "none", "row", FALSE)}

MsgOutcomes(d) ==
    CASE kind = "page" -> PageOutcomes(d)
      [] kind = "user" -> UserOutcomes(d)
      [] kind = "lead" -> LeadOutcomes(d)

\* processBatch up to db.Begin(): the empty test, the transaction (page and
\* user consumers), the declarations of msgsToAck and rows.
Begin(p) ==
    /\ ~crashed
    /\ pc[p] = "begin"
    /\ tick' = IF p = TimerProc
               THEN [tick EXCEPT !.calls = Append(@, messages)] ELSE tick
    /\ \E ok \in IF kind = "lead" THEN {TRUE} ELSE BOOLEAN :
        IF Len(messages) = 0 \/ ~ok
        THEN /\ ret' = IF Len(messages) = 0 THEN "empty" ELSE "nobegin"
             /\ faults' = (faults \/ Len(messages) # 0)
             /\ pc' = [pc EXCEPT ![p] = "unlock"]
             /\ UNCHANGED <<tx, txWrites, commitErr, idx, msgsToAck, rows,
                            batches>>
        ELSE /\ tx' = IF kind = "lead" THEN "none" ELSE "open"
             /\ txWrites' = NoWrites
             /\ commitErr' = "unset"
             /\ idx' = 1
             /\ msgsToAck' = <<>>
             /\ rows' = <<>>
             /\ ret' = "running"
             /\ batches' = Append(batches, messages)
             /\ pc' = [pc EXCEPT ![p] = "loop"]
             /\ UNCHANGED faults
    /\ UNCHANGED <<jobVars, kind, data, acts, messages, batchMutex, batchTimer, arg,
                   db, bq, crashed, dec>>

\* processBatch: one iteration of for _, msg := range bp.messages.
Process(p) ==
    /\ ~crashed
    /\ pc[p] = "loop"
    /\ idx <= Len(messages)
    /\ LET m == messages[idx]
           d == data[m]
       IN \E o \in MsgOutcomes(d) :
           /\ acts' = CASE o.act = "ack" -> Ack(acts, m)
                        [] o.act = "nack" -> Nack(acts, m)
                        [] OTHER -> acts
           /\ tx' = o.tx
           /\ txWrites' = CASE o.write = "tx" -> [txWrites EXCEPT ![d.key] = <<d.val>>]
                            [] o.write = "rollback" -> NoWrites
                            [] OTHER -> txWrites
           /\ db' = IF o.write = "db" THEN [db EXCEPT ![d.key] = <<d.val>>] ELSE db
           /\ rows' = IF o.stage
                      THEN Append(rows, [key |-> d.key, val |-> d.val,
                                         msg |-> m, loc |-> o.loc])
                      ELSE rows
           /\ msgsToAck' = IF o.stage /\ kind # "lead"
                           THEN Append(msgsToAck, m) ELSE msgsToAck
           /\ dec' = [dec EXCEPT ![m] =
                        [branch |-> o.dec,
                         found |-> IF kind = "lead" THEN <<>> ELSE db[d.key]]]
           /\ faults' = (faults \/ o.fault)
           /\ crashed' = o.crash
    /\ idx' = idx + 1
    /\ pc' = [pc EXCEPT ![p] =
                IF idx + 1 <= Len(messages) THEN "loop"
                ELSE IF kind = "lead" THEN "put" ELSE "commit"]
    /\ UNCHANGED <<jobVars, kind, data, messages, batchMutex, batchTimer, arg,
                   commitErr, ret, bq, batches, tick>>

\* processBatch: err = tx.Commit(); the error is logged and execution goes on.
Commit(p) ==
    /\ ~crashed
    /\ pc[p] = "commit"
    /\ \E ok \in IF tx = "open" THEN BOOLEAN ELSE {FALSE} :
        /\ commitErr' = IF ok THEN "nil" ELSE "err"
        /\ db' = IF ok
                 THEN [k \in Keys |-> IF txWrites[k] # <<>> THEN txWrites[k]
                                      ELSE db[k]]
                 ELSE db
        /\ faults' = (faults \/ (tx = "open" /\ ~ok))
    /\ tx' = "done"
    /\ txWrites' = NoWrites
    /\ pc' = [pc EXCEPT ![p] = "put"]
    /\ UNCHANGED <<jobVars, kind, data, acts, messages, batchMutex, batchTimer, arg,
                   idx, msgsToAck, rows, ret, bq, crashed, dec, batches, tick>>

\* A flush that leaves the processed messages in the buffer.
ClearBatch_Keep(ms) == ms

\* processBatch: bp.messages = bp.messages[:0].
ClearBatch(ms) == SubSeq(ms, 1, 0)

\* processBatch: inserter.Put(bp.ctx, rows), the acks on success, and
\* bp.messages = bp.messages[:0].  Put of no rows sends nothing and succeeds.
Put(p) ==
    /\ ~crashed
    /\ pc[p] = "put"
    /\ \E ok \in IF rows = <<>> THEN {TRUE} ELSE BOOLEAN :
        /\ bq' = IF ok THEN bq \o rows ELSE bq
        /\ acts' = IF ok
                   THEN AckAll(acts, IF kind = "lead" THEN messages ELSE msgsToAck)
                   ELSE acts
        /\ faults' = (faults \/ ~ok)
    /\ messages' = ClearBatch(messages)
    /\ ret' = "done"
    /\ pc' = [pc EXCEPT ![p] = "unlock"]
    /\ UNCHANGED <<jobVars, kind, data, batchMutex, batchTimer, arg, tx, txWrites,
                   commitErr, idx, msgsToAck, rows, db, crashed, dec, batches,
                   tick>>

Next ==
    \/ \E p \in Receivers : AddLock(p)
    \/ \E p \in Receivers : AddAppend(p)
    \/ TimerFire
    \/ TimerLock
    \/ TimerReset
    \/ \E p \in Procs : Begin(p)
    \/ \E p \in Procs : Process(p)
    \/ \E p \in Procs : Commit(p)
    \/ \E p \in Procs : Put(p)
    \/ \E p \in Procs : Unlock(p)

Spec == Init /\ [][Next]_vars

(***************************************************************************)
(* The aggregation jobs: the upsert of one result row into a rollup table. *)
(* A job is a process of its own; the consumer's variables stay as they    *)
(* are at start.                                                           *)
(***************************************************************************)

\* Number of upsert statements executed in one behaviour.
MaxUpserts == 3

consumerVars == <<kind, data, acts, messages, batchMutex, batchTimer, pc, arg,
                  tx, txWrites, commitErr, idx, msgsToAck, rows, ret, db, bq,
                  crashed, dec, batches, tick, faults>>

\* A non-negative number of an average column, as a fraction in lowest
\* terms.
RECURSIVE GCD(_, _)
GCD(a, b) == IF b = 0 THEN a ELSE GCD(b, a % b)

Rat(n, d) == [n |-> n \div GCD(n, d), d |-> d \div GCD(n, d)]

RatAdd(x, y) == Rat(x.n * y.d + y.n * x.d, x.d * y.d)

RatDiv(x, k) == Rat(x.n, x.d * k)

\* COUNT(*) AS view_count of the analytical query: at least one event per
\* group.
IncCounts == {5, 10}

\* ROUND(AVG(...), 2) of the analytical query.
IncAvgs == {Rat(50, 1), Rat(80, 1)}

\* view_count = t.view_count + EXCLUDED.view_count.
MergeCount_Overwrite(oldCount, incCount) == incCount
MergeCount(oldCount, incCount) == oldCount + incCount

\* The count-weighted mean of the two averages.
MergeAvg_Weighted(oldAvg, incAvg, oldCount, incCount) ==
    Rat(oldAvg.n * oldCount * incAvg.d + incAvg.n * incCount * oldAvg.d,
        oldAvg.d * incAvg.d * (oldCount + incCount))

\* avg_x = (t.avg_x + EXCLUDED.avg_x) / (t.view_count + EXCLUDED.view_count);
\* both counts are those of the row before the update and of the proposed
\* row.
MergeAvg(oldAvg, incAvg, oldCount, incCount) ==
    RatDiv(RatAdd(oldAvg, incAvg), oldCount + incCount)

\* INSERT ... ON CONFLICT (key) DO UPDATE SET ...: the row the statement
\* leaves in the table.
Upserted(old, inc) ==
    IF old = <<>> THEN inc
    ELSE [count |-> MergeCount(old[1].count, inc.count),
          avg |-> MergeAvg(old[1].avg, inc.avg, old[1].count, inc.count)]

\* db.Exec(insertQuery, ...) for one row of the analytical result; on an
\* error the table is as before.
Upsert(c, inc) ==
    /\ nUpserts < MaxUpserts
    /\ nUpserts' = nUpserts + 1
    /\ \E ok \in BOOLEAN :
        /\ rollup' = IF ok THEN [rollup EXCEPT ![c] = <<Upserted(rollup[c], inc)>>]
                      ELSE rollup
        /\ upsert' = [cell |-> c, old |-> rollup[c], inc |-> <<inc>>, ok |-> ok]
    /\ UNCHANGED <<consumerVars, scoreVars, runVars, simVars, auxVars>>

\* The rollup tables whose job deletes aged rows.
PurgedTables == RollupTables \ {"article_metrics"}

\* DELETE FROM <table> WHERE brand = $1 AND calculation_period < NOW() -
\* INTERVAL ...: a row that has aged beyond the retention window goes.
Purge(c) ==
    /\ c[1] \in PurgedTables
    /\ rollup[c] # <<>>
    /\ rollup' = [rollup EXCEPT ![c] = <<>>]
    /\ upsert' = NoUpsert
    /\ UNCHANGED <<nUpserts, consumerVars, scoreVars, runVars, simVars,
                   auxVars>>

RollupInit == Init /\ kind = "page"

RollupNext ==
    \/ \E c \in Cells, n \in IncCounts, a \in IncAvgs :
        Upsert(c, [count |-> n, avg |-> a])
    \/ \E c \in Cells : Purge(c)

RollupSpec == RollupInit /\ [][RollupNext]_vars

----------------------------------------------------------------------------
\* The engagement score of the read API (getLeadEngagementScore): the score
\* column of the query over the monthly_metrics row of a lead.  Averages and
\* scores are numerics with two decimals, held here in hundredths.

ViewCounts == {0, 1, 5}
AvgTimes == {0, 3000}
AvgRates == {0, 100}

ScoreIns ==
    [v : ViewCounts \X ViewCounts \X ViewCounts,
     t : AvgTimes \X AvgTimes \X AvgTimes,
     r : AvgRates \X AvgRates \X AvgRates]

Least(a, b) == IF a <= b THEN a ELSE b

Greatest_NoFloor(a, b) == a
Greatest(a, b) == IF a >= b THEN a ELSE b

\* ROUND(n / d, 2) of numerics for d > 0, in hundredths, n being in
\* hundredths already: halves go away from zero.
Round(n, d) ==
    IF n >= 0 THEN (2 * n + d) \div (2 * d)
    ELSE -((2 * (-n) + d) \div (2 * d))

\* WHEN views_month_1 = 0 AND views_month_2 = 0 AND views_month_3 >= 0
NoActivity_LatestOnly(m) == m.v[1] = 0 /\ m.v[2] = 0 /\ m.v[3] > 0
NoActivity(m) == m.v[1] = 0 /\ m.v[2] = 0 /\ m.v[3] >= 0

\* WHEN views_month_2 = 0 AND views_month_3 = 0
Stalled(m) == m.v[2] = 0 /\ m.v[3] = 0

\* The weighted sum of the deltas, in thousandths.
WeightedDelta(m) ==
    200 * (m.v[2] - m.v[1]) + 500 * (m.v[3] - m.v[2])
    + 1 * (m.t[2] - m.t[1]) + 3 * (m.t[3] - m.t[2])
    + 1 * (m.r[2] - m.r[1]) + 3 * (m.r[3] - m.r[2])

TotalViews(m) == m.v[3] + m.v[2] + m.v[1]

\* The branch of CASE ... END the row takes: the WHENs in order, then ELSE.
ScoreBranch_General(m) == "general"
ScoreBranch(m) ==
    IF NoActivity(m) THEN "zero"
    ELSE IF Stalled(m) THEN "stalled"
    ELSE "general"

\* CASE ... END AS score, in hundredths.  In the ELSE branch a zero total
\* makes NULLIF(total, 0) and so the quotient and ROUND NULL; GREATEST
\* ignores a NULL argument and gives -1.
ScoreCase(m) ==
    CASE ScoreBranch(m) = "zero" -> 0
      [] ScoreBranch(m) = "stalled" -> -100
      [] OTHER ->
            IF TotalViews(m) = 0 THEN Least(-100, 100)
            ELSE Least(Greatest(Round(WeightedDelta(m), 10 * TotalViews(m)),
                                -100), 100)

\* getLeadEngagementScore: the query runs and its row is scanned.
getLeadEngagementScore ==
    /\ score = <<>>
    /\ score' = <<ScoreCase(scoreIn)>>
    /\ UNCHANGED <<scoreIn, consumerVars, rollupVars, runVars, simVars,
                   auxVars>>

ScoreInit ==
    /\ ConsumerInit /\ kind = "page"
    /\ RollupIdle
    /\ scoreIn \in ScoreIns
    /\ score = <<>>
    /\ RunIdle /\ SimIdle /\ AuxIdle

ScoreNext == getLeadEngagementScore

ScoreSpec == ScoreInit /\ [][ScoreNext]_vars

----------------------------------------------------------------------------
\* The rollup rows of one lead and the score read from them: the upserts of
\* the lead_engagement_metrics job and getLeadEngagementScore, the places
\* where a quotient over summed view counts is taken.

LeadCell == <<"lead_engagement_metrics", "e1">>

DivInit ==
    /\ ConsumerInit /\ kind = "page"
    /\ RollupIdle
    /\ scoreIn \in {m \in ScoreIns : m.t = <<0, 0, 0>> /\ m.r = <<0, 0, 0>>}
    /\ score = <<>>
    /\ RunIdle /\ SimIdle /\ AuxIdle

DivNext ==
    \/ \E n \in IncCounts, a \in IncAvgs :
        Upsert(LeadCell, [count |-> n, avg |-> a])
    \/ getLeadEngagementScore

DivSpec == DivInit /\ [][DivNext]_vars

----------------------------------------------------------------------------
\* One aggregation job process: main reads the brands cursor and starts one
\* goroutine per brand; each goroutine deletes aged rows (where the job has
\* a DELETE), queries the analytical store and upserts the rows it gets.

MaxRuns == 2

Jobs == {"article_metrics", "lead_section_article_count"}

\* What each job's code does: whether the goroutine starts with a DELETE,
\* and what follows an error of brands.Scan, of it.Next and of the INSERT.
JobCode ==
    [article_metrics |->
        [purges |-> FALSE, scanErr |-> "return", nextErr |-> "continue",
         insertErr |-> "log"],
     lead_section_article_count |->
        [purges |-> TRUE, scanErr |-> "continue", nextErr |-> "break",
         insertErr |-> "break"],
     content_based_articles |->
        [purges |-> TRUE, scanErr |-> "return", nextErr |-> "return",
         insertErr |-> "log"]]

TasksOver == \A b \in BrandSet : tpc[b] \in {"idle", "done"}

\* for brands.Next() { brands.Scan(&brand); wg.Add(1); go func ... }
ScanBrand ==
    /\ dpc = "scan" /\ bi <= Len(Brands)
    /\ \E ok \in BOOLEAN :
        /\ clean' = (clean /\ ok)
        /\ dpc' = IF ~ok /\ JobCode[job].scanErr = "return"
                  THEN "exited" ELSE dpc
        /\ bi' = IF ~ok /\ JobCode[job].scanErr = "return"
                 THEN bi ELSE bi + 1
        /\ tpc' = IF ok
                  THEN [tpc EXCEPT ![Brands[bi]] =
                            IF JobCode[job].purges THEN "purge" ELSE "query"]
                  ELSE tpc
    /\ UNCHANGED <<job, run, ri, table, purged, ups, failed, prev>>
    /\ UNCHANGED <<consumerVars, rollupVars, scoreVars, simVars, auxVars>>

\* brands.Next() returns false: main goes on to wg.Wait().
ScanDone ==
    /\ dpc = "scan" /\ bi > Len(Brands)
    /\ dpc' = "wait"
    /\ UNCHANGED <<job, run, bi, tpc, ri, table, purged, ups, failed, clean,
                   prev>>
    /\ UNCHANGED <<consumerVars, rollupVars, scoreVars, simVars, auxVars>>

\* wg.Wait() returns when every goroutine has called wg.Done(); main then
\* returns and the process ends.
Wait ==
    /\ dpc = "wait"
    /\ TasksOver
    /\ dpc' = "exited"
    /\ UNCHANGED <<job, run, bi, tpc, ri, table, purged, ups, failed, clean,
                   prev>>
    /\ UNCHANGED <<consumerVars, rollupVars, scoreVars, simVars, auxVars>>

\* The task of brand b ends with an error logged.
Fail(b) ==
    /\ failed' = [failed EXCEPT ![b] = TRUE]
    /\ clean' = FALSE

NoFail == UNCHANGED <<failed, clean>>

\* DELETE FROM <table> WHERE brand = $1 AND calculation_period < NOW() - ...
TaskPurge(b) ==
    /\ dpc # "exited" /\ tpc[b] = "purge"
    /\ \E ok \in BOOLEAN :
        IF ok
        THEN /\ table' = [k \in TableKeys |->
                            IF k[1] = b /\ k[3] = "old" THEN 0 ELSE table[k]]
             /\ purged' = [purged EXCEPT ![b] = TRUE]
             /\ tpc' = [tpc EXCEPT ![b] = "query"]
             /\ NoFail
        ELSE /\ tpc' = [tpc EXCEPT ![b] = "done"]
             /\ Fail(b)
             /\ UNCHANGED <<table, purged>>
    /\ UNCHANGED <<job, run, dpc, bi, ri, ups, prev>>
    /\ UNCHANGED <<consumerVars, rollupVars, scoreVars, simVars, auxVars>>

\* The analytical query is run and its iterator obtained.
TaskQuery(b) ==
    /\ dpc # "exited" /\ tpc[b] = "query"
    /\ \E ok \in BOOLEAN :
        IF ok
        THEN /\ tpc' = [tpc EXCEPT ![b] = "rows"]
             /\ NoFail
        ELSE /\ tpc' = [tpc EXCEPT ![b] = "done"]
             /\ Fail(b)
    /\ UNCHANGED <<job, run, dpc, bi, ri, table, purged, ups, prev>>
    /\ UNCHANGED <<consumerVars, rollupVars, scoreVars, simVars, auxVars>>

\* ri of an iterator that has failed for good: every later Next returns the
\* error again.
Broken == 0

\* What it.Next(&row) can return at position i: iterator.Done after the last
\* row; else a row, an error on that row alone (the iterator has moved on),
\* or an error that stays.
NextOutcomes(i) ==
    IF i = Broken THEN {"broken"}
    ELSE IF i > Len(ResultKeys) THEN {"done"}
    ELSE {"row", "skip", "broken"}

\* err := it.Next(&row): iterator.Done ends the loop, a row goes to the
\* INSERT, an error goes to the error branch.
TaskNext(b) ==
    /\ dpc # "exited" /\ tpc[b] = "rows"
    /\ \E out \in NextOutcomes(ri[b]) :
        CASE out = "done" ->
                /\ tpc' = [tpc EXCEPT ![b] = "done"]
                /\ NoFail
                /\ UNCHANGED ri
          [] out = "row" ->
                /\ tpc' = [tpc EXCEPT ![b] = "exec"]
                /\ NoFail
                /\ UNCHANGED ri
          [] out = "skip" ->
                /\ tpc' = [tpc EXCEPT ![b] = "nexterr"]
                /\ ri' = [ri EXCEPT ![b] = @ + 1]
                /\ Fail(b)
          [] out = "broken" ->
                /\ tpc' = [tpc EXCEPT ![b] = "nexterr"]
                /\ ri' = [ri EXCEPT ![b] = Broken]
                /\ Fail(b)
    /\ UNCHANGED <<job, run, dpc, bi, table, purged, ups, prev>>
    /\ UNCHANGED <<consumerVars, rollupVars, scoreVars, simVars, auxVars>>

\* if err != nil: the error is logged and the loop continues or breaks as
\* the job's code says.
TaskNextErr(b) ==
    /\ dpc # "exited" /\ tpc[b] = "nexterr"
    /\ tpc' = [tpc EXCEPT ![b] =
                IF JobCode[job].nextErr = "continue" THEN "rows" ELSE "done"]
    /\ UNCHANGED <<job, run, dpc, bi, ri, table, purged, ups, failed, clean,
                   prev>>
    /\ UNCHANGED <<consumerVars, rollupVars, scoreVars, simVars, auxVars>>

\* INSERT ... ON CONFLICT ... DO UPDATE SET view_count = t.view_count +
\* EXCLUDED.view_count of the row just read, into the current period.
TaskExec(b) ==
    /\ dpc # "exited" /\ tpc[b] = "exec"
    /\ \E ok \in BOOLEAN :
        IF ok
        THEN /\ table' = [table EXCEPT ![<<b, ResultKeys[ri[b]], "cur">>] =
                                MergeCount(@, 1)]
             /\ ups' = [ups EXCEPT ![b] = @ + 1]
             /\ ri' = [ri EXCEPT ![b] = @ + 1]
             /\ tpc' = [tpc EXCEPT ![b] = "rows"]
             /\ NoFail
        ELSE /\ ri' = [ri EXCEPT ![b] =
                        IF JobCode[job].insertErr = "log" THEN @ + 1 ELSE @]
             /\ tpc' = [tpc EXCEPT ![b] =
                        IF JobCode[job].insertErr = "log"
                        THEN "rows" ELSE "done"]
             /\ Fail(b)
             /\ UNCHANGED <<table, ups>>
    /\ UNCHANGED <<job, run, dpc, bi, purged, prev>>
    /\ UNCHANGED <<consumerVars, rollupVars, scoreVars, simVars, auxVars>>

\* The process has ended (its goroutines with it) and the job is started
\* again over the same analytical window.
Rerun ==
    /\ dpc = "exited" /\ run < MaxRuns
    /\ run' = run + 1
    /\ prev' = <<[table |-> table, complete |-> clean /\ TasksOver]>>
    /\ dpc' = "scan"
    /\ bi' = 1
    /\ tpc' = [b \in BrandSet |-> "idle"]
    /\ ri' = [b \in BrandSet |-> 1]
    /\ purged' = [b \in BrandSet |-> FALSE]
    /\ ups' = [b \in BrandSet |-> 0]
    /\ failed' = [b \in BrandSet |-> FALSE]
    /\ clean' = TRUE
    /\ UNCHANGED <<job, table>>
    /\ UNCHANGED <<consumerVars, rollupVars, scoreVars, simVars, auxVars>>

JobInit ==
    /\ ConsumerInit /\ kind = "page"
    /\ RollupIdle /\ ScoreIdle
    /\ job \in Jobs
    /\ run = 1
    /\ table = StartTable
    /\ prev = <<>>
    /\ RunStart
    /\ SimIdle /\ AuxIdle

JobNext ==
    \/ ScanBrand
    \/ ScanDone
    \/ Wait
    \/ \E b \in BrandSet : TaskPurge(b)
    \/ \E b \in BrandSet : TaskQuery(b)
    \/ \E b \in BrandSet : TaskNext(b)
    \/ \E b \in BrandSet : TaskNextErr(b)
    \/ \E b \in BrandSet : TaskExec(b)
    \/ Rerun

JobSpec == JobInit /\ [][JobNext]_vars

\* The Go scheduler runs main and every goroutine that can take a step.
JobFairness ==
    /\ WF_vars(ScanBrand) /\ WF_vars(ScanDone) /\ WF_vars(Wait)
    /\ \A b \in BrandSet :
        /\ WF_vars(TaskPurge(b)) /\ WF_vars(TaskQuery(b))
        /\ WF_vars(TaskNext(b)) /\ WF_vars(TaskNextErr(b))
        /\ WF_vars(TaskExec(b))

JobFairSpec == JobSpec /\ JobFairness

----------------------------------------------------------------------------
\* The content-based similarity job: the goroutine of a brand deletes the
\* rows of articles published more than 15 days ago, reads the brand's
\* recent articles and inserts both directions of every pair.

simRunVars == <<job, run, dpc, bi, ri, table, purged, ups, prev>>

\* The rounded similarity of two articles: one value for the pair.
roundedSimilarity(a, b) == <<"similarity", {a, b}>>

Row(b, u1, u2) ==
    [brand |-> b, article_url_1 |-> u1, article_url_2 |-> u2,
     similarity_score |-> roundedSimilarity(u1, u2)]

\* The rows an earlier run has left for a brand: both directions of u, v.
PairRows(b) == {Row(b, "u", "v"), Row(b, "v", "u")}

\* SELECT cba.article_url_1 FROM content_based_articles AS cba JOIN page AS
\* p ON p.url = cba.article_url_1 WHERE cba.brand = $1 AND p.brand = $1 AND
\* p.publication_date < NOW() - INTERVAL '15 DAYS'
OldUrls1(b) ==
    {r.article_url_1 : r \in {x \in cba : x.brand = b
                                /\ page[<<b, x.article_url_1>>] = "old"}}

\* The same over article_url_2.
OldUrls2(b) ==
    {r.article_url_2 : r \in {x \in cba : x.brand = b
                                /\ page[<<b, x.article_url_2>>] = "old"}}

\* DELETE FROM content_based_articles WHERE article_url_1 IN (...)
Deleted1(b) == {r \in cba : r.article_url_1 \notin OldUrls1(b)}

\* DELETE FROM content_based_articles WHERE article_url_2 IN (...)
Deleted2(b) == {r \in cba : r.article_url_2 \notin OldUrls2(b)}

\* INSERT ... ON CONFLICT (brand, article_url_1, article_url_2) DO NOTHING
Inserted(r) ==
    IF \E x \in cba : /\ x.brand = r.brand
                      /\ x.article_url_1 = r.article_url_1
                      /\ x.article_url_2 = r.article_url_2
    THEN cba ELSE cba \cup {r}

\* The first DELETE of the goroutine of brand b.
SimDelete1(b) ==
    /\ dpc # "exited" /\ tpc[b] = "purge"
    /\ \E ok \in BOOLEAN :
        IF ok
        THEN /\ cba' = Deleted1(b)
             /\ tpc' = [tpc EXCEPT ![b] = "purge2"]
             /\ NoFail
        ELSE /\ tpc' = [tpc EXCEPT ![b] = "done"]
             /\ Fail(b)
             /\ UNCHANGED cba
    /\ UNCHANGED <<simRunVars, page>>
    /\ UNCHANGED <<consumerVars, rollupVars, scoreVars, auxVars>>

\* The second DELETE.
SimDelete2(b) ==
    /\ dpc # "exited" /\ tpc[b] = "purge2"
    /\ \E ok \in BOOLEAN :
        IF ok
        THEN /\ cba' = Deleted2(b)
             /\ tpc' = [tpc EXCEPT ![b] = "articles"]
             /\ NoFail
        ELSE /\ tpc' = [tpc EXCEPT ![b] = "done"]
             /\ Fail(b)
             /\ UNCHANGED cba
    /\ UNCHANGED <<simRunVars, page>>
    /\ UNCHANGED <<consumerVars, rollupVars, scoreVars, auxVars>>

\* SELECT url, content_vector FROM page WHERE brand = $1 AND ...
\* publication_date >= NOW() - INTERVAL '15 DAYS', and the rows scanned;
\* the pair loop has a pair only when both pages are recent.
SimArticles(b) ==
    /\ dpc # "exited" /\ tpc[b] = "articles"
    /\ \E ok \in BOOLEAN :
        IF ok
        THEN /\ tpc' = [tpc EXCEPT ![b] =
                    IF \A u \in Urls : page[<<b, u>>] = "recent"
                    THEN "insert" ELSE "done"]
             /\ NoFail
        ELSE /\ tpc' = [tpc EXCEPT ![b] = "done"]
             /\ Fail(b)
    /\ UNCHANGED <<simRunVars, simVars>>
    /\ UNCHANGED <<consumerVars, rollupVars, scoreVars, auxVars>>

\* The INSERT of (u, v); on an error the loop continues with the next pair
\* and the reverse row is skipped.
SimInsert(b) ==
    /\ dpc # "exited" /\ tpc[b] = "insert"
    /\ \E ok \in BOOLEAN :
        IF ok
        THEN /\ cba' = Inserted(Row(b, "u", "v"))
             /\ tpc' = [tpc EXCEPT ![b] = "reverse"]
             /\ NoFail
        ELSE /\ tpc' = [tpc EXCEPT ![b] = "done"]
             /\ Fail(b)
             /\ UNCHANGED cba
    /\ UNCHANGED <<simRunVars, page>>
    /\ UNCHANGED <<consumerVars, rollupVars, scoreVars, auxVars>>

\* The INSERT of the reverse row (v, u); an error is logged.
SimInsertReverse(b) ==
    /\ dpc # "exited" /\ tpc[b] = "reverse"
    /\ \E ok \in BOOLEAN :
        IF ok
        THEN /\ cba' = Inserted(Row(b, "v", "u"))
             /\ NoFail
        ELSE /\ Fail(b)
             /\ UNCHANGED cba
    /\ tpc' = [tpc EXCEPT ![b] = "done"]
    /\ UNCHANGED <<simRunVars, page>>
    /\ UNCHANGED <<consumerVars, rollupVars, scoreVars, auxVars>>

\* The table holds what earlier runs left, both directions of each pair;
\* since then a page may have passed the 15 days.
SimInit ==
    /\ ConsumerInit /\ kind = "page"
    /\ RollupIdle /\ ScoreIdle
    /\ job = "content_based_articles"
    /\ run = 1
    /\ table = StartTable
    /\ prev = <<>>
    /\ RunStart
    /\ \E bs \in SUBSET BrandSet : cba = UNION {PairRows(b) : b \in bs}
    /\ page \in [BrandSet \X Urls -> {"old", "recent"}]
    /\ AuxIdle

SimNext ==
    \/ ScanBrand
    \/ ScanDone
    \/ Wait
    \/ \E b \in BrandSet : SimDelete1(b)
    \/ \E b \in BrandSet : SimDelete2(b)
    \/ \E b \in BrandSet : SimArticles(b)
    \/ \E b \in BrandSet : SimInsert(b)
    \/ \E b \in BrandSet : SimInsertReverse(b)

SimSpec == SimInit /\ [][SimNext]_vars

----------------------------------------------------------------------------
\* The top_articles job, the goroutine of one brand: the DELETE, the
\* analytical query with its three maps, and the three insert loops.

topOther == <<upsert, nUpserts, consumerVars, scoreVars, runVars, simVars, lav,
              coll>>

\* The rows the query can return: per url a view count, an average, and
\* whether the page has a sub_section (every page has a section).
Articles ==
    [RollupKeys -> [count : IncCounts, avg : IncAvgs, sub : BOOLEAN]]

TopCell(u) == <<"top_articles", u>>

\* The keys of topArticles, topArticlesSection, topArticlesSectionSubSection.
LoopKeys(loop, as) ==
    CASE loop = "subsections" -> {u \in RollupKeys : as[u].sub}
      [] loop = "done" -> {}
      [] OTHER -> RollupKeys

\* The loop after a loop.
LoopAfter(loop) ==
    CASE loop = "urls" -> "sections"
      [] loop = "sections" -> "subsections"
      [] OTHER -> "done"

\* DELETE FROM top_articles WHERE brand = $1 AND calculation_period < NOW()
\* - INTERVAL '2 DAYS': no row of the current period goes.
TopDelete ==
    /\ top.pc = "delete"
    /\ \E ok \in BOOLEAN :
        top' = IF ok THEN [top EXCEPT !.pc = "query"]
               ELSE [top EXCEPT !.pc = "done", !.failed = TRUE]
    /\ UNCHANGED <<rollup, topOther>>

\* query.Read and the it.Next loop that fills the three maps.
TopQuery ==
    /\ top.pc = "query"
    /\ \E ok \in BOOLEAN :
        top' = IF ok
               THEN [top EXCEPT !.pc = "urls",
                                !.pending = LoopKeys("urls", top.articles)]
               ELSE [top EXCEPT !.pc = "done", !.failed = TRUE]
    /\ UNCHANGED <<rollup, topOther>>

\* One db.Exec(insertQuery, brand, url, topArticle.ViewCount, ...) of the
\* running loop; Go ranges over a map in any order.
TopInsert ==
    /\ top.pc \in {"urls", "sections", "subsections"}
    /\ \E u \in top.pending, ok \in BOOLEAN :
        IF ok
        THEN /\ rollup' = [rollup EXCEPT ![TopCell(u)] =
                    <<Upserted(@, [count |-> top.articles[u].count,
                                   avg |-> top.articles[u].avg])>>]
             /\ top' = [top EXCEPT !.pending = @ \ {u}]
        ELSE /\ top' = [top EXCEPT !.pc = "done", !.failed = TRUE]
             /\ UNCHANGED rollup
    /\ UNCHANGED topOther

\* The running loop is over; the next one starts.
TopLoopEnd ==
    /\ top.pc \in {"urls", "sections", "subsections"}
    /\ top.pending = {}
    /\ top' = [top EXCEPT !.pc = LoopAfter(top.pc),
                          !.pending = LoopKeys(LoopAfter(top.pc), top.articles)]
    /\ UNCHANGED <<rollup, topOther>>

\* An empty top_articles table and the rows the query is going to return.
TopInit ==
    /\ ConsumerInit /\ kind = "page"
    /\ RollupIdle /\ ScoreIdle /\ RunIdle /\ SimIdle
    /\ \E as \in Articles :
        top = [pc |-> "delete", articles |-> as, pending |-> {},
               failed |-> FALSE]
    /\ lav = NoLav /\ coll = NoColl

TopNext ==
    \/ TopDelete
    \/ TopQuery
    \/ TopInsert
    \/ TopLoopEnd

TopSpec == TopInit /\ [][TopNext]_vars

----------------------------------------------------------------------------
\* The lead_article_view_count job, the goroutine of one brand: the DELETE,
\* then one transaction around the upserts of the rows the query returned.

lavOther == <<consumerVars, rollupVars, scoreVars, runVars, simVars, top, coll>>

\* The results the query can give: one row per lead (GROUP BY lead_uuid).
LavResults ==
    {<<>>} \cup {<<[lead |-> "l1", count |-> n]>> : n \in IncCounts}
    \cup {<<[lead |-> "l1", count |-> n], [lead |-> "l2", count |-> k]>> :
            n \in IncCounts, k \in IncCounts}

\* The tables an earlier run can have left: an aged row and current rows.
LavTables ==
    {t \in [Leads \X Periods -> {0, 5}] : t[<<"l2", "old">>] = 0}

\* The goroutine returns after an error, the transaction rolled back.
LavFail(l) == [l EXCEPT !.pc = "done", !.failed = TRUE, !.txTable = l.table]

\* tx.Exec(insertQuery, brand, lvc.LeadUUID, lvc.ViewCount, currentDate):
\* view_count = t.view_count + EXCLUDED.view_count, inside the transaction.
AfterExec_NoTx(l, row) ==
    [l EXCEPT !.table[<<row.lead, "cur">>] = MergeCount(@, row.count),
              !.txTable[<<row.lead, "cur">>] = MergeCount(@, row.count),
              !.idx = @ + 1, !.execs = @ + 1]
AfterExec(l, row) ==
    [l EXCEPT !.txTable[<<row.lead, "cur">>] = MergeCount(@, row.count),
              !.idx = @ + 1, !.execs = @ + 1]

\* db.Exec(deleteOldDataQuery, brand), a statement of its own.
LavDelete ==
    /\ lav.pc = "delete"
    /\ \E ok \in BOOLEAN :
        lav' = IF ok
               THEN [lav EXCEPT !.pc = "begin",
                        !.table = [k \in Leads \X Periods |->
                                    IF k[2] = "old" THEN 0 ELSE lav.table[k]]]
               ELSE [lav EXCEPT !.pc = "done", !.failed = TRUE]
    /\ UNCHANGED lavOther

\* tx, err := db.Begin()
LavBegin ==
    /\ lav.pc = "begin"
    /\ \E ok \in BOOLEAN :
        lav' = IF ok THEN [lav EXCEPT !.pc = "read", !.txTable = lav.table]
               ELSE [lav EXCEPT !.pc = "done", !.failed = TRUE]
    /\ UNCHANGED lavOther

\* it, err := q.Read(...)
LavRead ==
    /\ lav.pc = "read"
    /\ \E ok \in BOOLEAN :
        lav' = IF ok THEN [lav EXCEPT !.pc = "collect", !.idx = 1]
               ELSE LavFail(lav)
    /\ UNCHANGED lavOther

\* One it.Next(&lvc) of the loop that collects the results.
LavNext ==
    /\ lav.pc = "collect"
    /\ IF lav.idx > Len(lav.rows)
       THEN lav' = [lav EXCEPT !.pc = "exec", !.idx = 1]
       ELSE \E ok \in BOOLEAN :
            lav' = IF ok THEN [lav EXCEPT !.idx = @ + 1] ELSE LavFail(lav)
    /\ UNCHANGED lavOther

\* One tx.Exec of the loop over the results, or its end.
LavExec ==
    /\ lav.pc = "exec"
    /\ IF lav.idx > Len(lav.rows)
       THEN lav' = [lav EXCEPT !.pc = "commit"]
       ELSE \E ok \in BOOLEAN :
            lav' = IF ok THEN AfterExec(lav, lav.rows[lav.idx])
                   ELSE LavFail(lav)
    /\ UNCHANGED lavOther

\* tx.Commit()
LavCommit ==
    /\ lav.pc = "commit"
    /\ \E ok \in BOOLEAN :
        lav' = IF ok THEN [lav EXCEPT !.pc = "done", !.table = lav.txTable]
               ELSE LavFail(lav)
    /\ UNCHANGED lavOther

LavInit ==
    /\ ConsumerInit /\ kind = "page"
    /\ RollupIdle /\ ScoreIdle /\ RunIdle /\ SimIdle
    /\ top = NoTop /\ coll = NoColl
    /\ \E rs \in LavResults, t \in LavTables :
        lav = [NoLav EXCEPT !.pc = "delete", !.rows = rs, !.table = t,
                            !.txTable = t, !.before = t]

LavNextStep ==
    \/ LavDelete
    \/ LavBegin
    \/ LavRead
    \/ LavNext
    \/ LavExec
    \/ LavCommit

LavSpec == LavInit /\ [][LavNextStep]_vars

----------------------------------------------------------------------------
\* The collector handlers collectPageDataHandler, collectUserDataHandler and
\* collectLeadEventDataHandler on requests with one and the same cache key:
\* the cache lookup, the cache write and the publish, in the handler's order.

collOther == <<consumerVars, rollupVars, scoreVars, runVars, simVars, top, lav>>

Handlers == {"page", "user", "lead"}

\* Where a handler goes after a step that does not end the request: the lead
\* handler writes the cache before it publishes, the page and user handlers
\* after, the user handler twice.
PcAfter(h, at) ==
    CASE h = "lead" /\ at = "idle" -> "set"
      [] h = "lead" /\ at = "set" -> "publish"
      [] h = "page" /\ at = "idle" -> "publish"
      [] h = "page" /\ at = "publish" -> "set"
      [] h = "user" /\ at = "idle" -> "publish"
      [] h = "user" /\ at = "publish" -> "set"
      [] h = "user" /\ at = "set" -> "set2"
      [] OTHER -> "done"

\* What redisClient.Get can return: redis.Nil, a value, or an error.
GetResults(cached) == {IF cached THEN "hit" ELSE "miss", "error"}

\* redisClient.Get(ctx, cacheKey) and the three branches on its result.
CollGet(q) ==
    /\ coll.pc[q] = "idle"
    /\ \E res \in GetResults(coll.cache) :
        coll' = IF res = "miss"
                THEN [coll EXCEPT !.pc[q] = PcAfter(coll.handler, "idle")]
                ELSE [coll EXCEPT !.pc[q] = "done",
                        !.out[q] = IF res = "hit" THEN "suppressed"
                                   ELSE "error"]
    /\ UNCHANGED collOther

\* redisClient.Set(ctx, cacheKey, "exists", ttl); an error is logged.
CollSet(q) ==
    /\ coll.pc[q] \in {"set", "set2"}
    /\ \E ok \in BOOLEAN :
        coll' = [coll EXCEPT !.cache = (@ \/ ok),
                             !.pc[q] = PcAfter(coll.handler, coll.pc[q])]
    /\ UNCHANGED collOther

\* publishPageData / publishUserData / publishLeadEventData; an error is
\* logged.
CollPublish(q) ==
    /\ coll.pc[q] = "publish"
    /\ \E ok \in BOOLEAN :
        coll' = [coll EXCEPT !.published = IF ok THEN @ + 1 ELSE @,
                             !.out[q] = IF ok THEN "published" ELSE "pubfail",
                             !.pc[q] = PcAfter(coll.handler, "publish")]
    /\ UNCHANGED collOther

CollInit ==
    /\ ConsumerInit /\ kind = "page"
    /\ RollupIdle /\ ScoreIdle /\ RunIdle /\ SimIdle
    /\ top = NoTop /\ lav = NoLav
    /\ \E h \in Handlers : coll = [NoColl EXCEPT !.handler = h]

CollNext ==
    \/ \E q \in Reqs : CollGet(q)
    \/ \E q \in Reqs : CollSet(q)
    \/ \E q \in Reqs : CollPublish(q)

CollSpec == CollInit /\ [][CollNext]_vars

(***************************************************************************)
(* Vocabulary of the properties.                                           *)
(***************************************************************************)

Range(q) == {q[i] : i \in 1..Len(q)}

\* The goroutine is inside processBatch.
InFlush(p) == pc[p] \in {"begin", "loop", "commit", "put"}

\* The i-th batch has been processed to the end of processBatch.
Finished(i) == i < Len(batches) \/ ret # "running"

\* Message m went through a flush that has finished.
Flushed(m) == \E i \in 1..Len(batches) : m \in Range(batches[i]) /\ Finished(i)

\* Message m has been appended to the buffer by AddMessage.
Appended(m) == m <= Len(data) /\ \A p \in Receivers : ~(pc[p] = "append" /\ arg[p] = m)

\* How often m occurs in the batches processBatch ranged over / in the buffer.
Occ(m) == Cardinality({ij \in (1..Len(batches)) \X (1..MaxMsgs) :
                          ij[2] <= Len(batches[ij[1]]) /\ batches[ij[1]][ij[2]] = m})

InBuf(m) == Cardinality({j \in 1..Len(messages) : messages[j] = m})

\* The lock holder's processBatch call has returned.
Returned(p) == pc[p] = "unlock" /\ ret \in {"done", "nobegin"}

\* C1 (stated as claimed): every message is terminal-acted exactly once: no
\* message ever has two Ack/Nack calls, and a message whose flush has
\* finished has exactly one.
C1_ActedExactlyOnce ==
    \A m \in 1..Len(data) :
        /\ Len(acts[m]) <= 1
        /\ Flushed(m) => Len(acts[m]) = 1

\* C2: the flushed batches partition the added messages: no message is in
\* two batches or twice in one, every appended message is either still in
\* the buffer or in exactly one batch (in both only while that batch is
\* being processed), and nothing else is in a batch or in the buffer.
C2_BatchesPartition ==
    \A m \in 1..MaxMsgs :
        /\ Occ(m) <= 1
        /\ InBuf(m) <= 1
        /\ ~Appended(m) => Occ(m) = 0 /\ InBuf(m) = 0
        /\ Appended(m) =>
            \/ Occ(m) + InBuf(m) = 1
            \/ /\ Occ(m) = 1 /\ InBuf(m) = 1
               /\ ret = "running"
               /\ m \in Range(batches[Len(batches)])
        /\ Flushed(m) => InBuf(m) = 0

\* Two batches have been flushed and every delivered message is in one.
C2_Witness ==
    /\ Len(batches) = 2
    /\ ret = "none"
    /\ Len(data) = MaxMsgs
    /\ \A m \in 1..MaxMsgs : Occ(m) = 1 /\ InBuf(m) = 0

\* C3: at most one goroutine is inside processBatch, no goroutine is at
\* AddMessage's append while another is inside processBatch, and whoever
\* is at the append or inside processBatch holds the mutex.
C3_OneFlushAtATime ==
    \A p \in Procs :
        (InFlush(p) \/ pc[p] = "append") =>
            /\ batchMutex = p
            /\ \A q \in Procs \ {p} : ~InFlush(q) /\ pc[q] # "append"

\* A size-triggered flush is running while the timer has fired and waits
\* for the mutex.
C3_Witness ==
    \E p \in Receivers : pc[p] = "loop" /\ pc[TimerProc] = "lock"

\* C4 (stated as claimed): whenever AddMessage returns, the buffer holds
\* fewer than maxBatchSize messages.
C4_BelowThresholdOnReturn ==
    \A p \in Receivers : pc[p] = "unlock" => Len(messages) < maxBatchSize

\* C5 (stated as claimed): a tick that fired with fewer than maxBatchSize
\* messages in the buffer makes exactly one processBatch call, on exactly
\* those messages, none if the buffer was empty; the timer is armed again
\* once the tick is over.
C5_TickFlushesBufferAtFire ==
    /\ (pc[TimerProc] = "reset" /\ Len(tick.fire) < maxBatchSize) =>
            tick.calls = IF tick.fire = <<>> THEN <<>> ELSE <<tick.fire>>
    /\ pc[TimerProc] = "wait" => batchTimer

\* C5 (amended): a tick makes exactly one processBatch call on exactly the
\* messages in the buffer when the timer goroutine acquires the mutex, and
\* none if the buffer is empty then; the timer is armed again once the tick
\* is over, and only then.
C5_TickFlushesBufferAtLock ==
    /\ (pc[TimerProc] = "reset" \/ (pc[TimerProc] = "unlock" /\ tick.locked)) =>
            tick.calls = IF tick.lock = <<>> THEN <<>> ELSE <<tick.lock>>
    /\ pc[TimerProc] = "wait" <=> batchTimer

\* A tick is over that found a partial batch and flushed it.
C5_Witness ==
    /\ pc[TimerProc] = "reset"
    /\ Len(tick.lock) \in 1..(maxBatchSize - 1)
    /\ tick.calls = <<tick.lock>>
    /\ batches # <<>> /\ batches[Len(batches)] = tick.lock
    /\ messages = <<>>

\* C6 (stated as claimed): after every flush attempt the buffer is empty when
\* the lock is released, and no batch exceeds maxBatchSize.
C6_BufferEmptyAfterFlush ==
    /\ \A p \in Procs : Returned(p) => messages = <<>>
    /\ \A i \in 1..Len(batches) : Len(batches[i]) <= maxBatchSize

\* Analytical rows of key k.
BqRows(k) == {i \in 1..Len(bq) : bq[i].key = k}

\* C7 (stated as claimed): when the same page message has been delivered
\* twice and both deliveries have been flushed (no external call having
\* failed, no other message for that page), the page has exactly one
\* relational row and one analytical row, and the second delivery was a
\* no-op that was acknowledged.
C7_IdempotentRedelivery ==
    \A i, j \in 1..Len(data) :
        ( /\ kind = "page" /\ i < j
          /\ data[i].shape = "ok" /\ data[j] = data[i]
          /\ \A m \in 1..Len(data) : data[m].key = data[i].key => m \in {i, j}
          /\ Flushed(i) /\ Flushed(j)
          /\ ~faults )
        => /\ db[data[i].key] = <<data[i].val>>
           /\ Cardinality(BqRows(data[i].key)) = 1
           /\ dec[j].branch = "noop"
           /\ acts[j] = <<"ack">>

\* The lookup of message m succeeded.
LookedUp(m) == dec[m].branch \in {"insert", "inserterr", "update", "updateerr", "noop"}

\* The field the change detector compares.
Relevant(v) == IF kind = "page" THEN <<v.null, v.sec, v.frac>> ELSE <<v.sub>>

\* C8 (stated as claimed): with no row an INSERT is issued; with a row an
\* UPDATE is issued iff the incoming modification date (subscription flag
\* for a user) differs from the persisted one, and nothing is written when
\* they are equal.
C8_ChangeDetection ==
    \A m \in 1..Len(data) :
        (kind \in {"page", "user"} /\ LookedUp(m)) =>
            IF dec[m].found = <<>>
            THEN dec[m].branch \in {"insert", "inserterr"}
            ELSE IF Relevant(dec[m].found[1]) # Relevant(data[m].val)
            THEN dec[m].branch \in {"update", "updateerr"}
            ELSE dec[m].branch = "noop"

\* C9 (stated as claimed): a message found unchanged is acknowledged by the
\* end of its flush.
C9_NoopAcked ==
    \A m \in 1..Len(data) :
        (dec[m].branch = "noop" /\ Flushed(m)) => acts[m] = <<"ack">>

\* C10 (stated as claimed): when tx.Commit() failed, every staged message
\* of the batch has been nacked and none acked when the flush ends.
C10_CommitFailureNacksStaged ==
    \A p \in Procs :
        (pc[p] = "unlock" /\ ret = "done" /\ commitErr = "err") =>
            \A m \in Range(msgsToAck) : acts[m] = <<"nack">>

\* Messages of the batch the lock holder's processBatch call ranged over.
LastBatch == IF batches = <<>> THEN {} ELSE Range(batches[Len(batches)])

\* Analytical rows appended for message m.
BqOf(m) == {i \in 1..Len(bq) : bq[i].msg = m}

\* C11 (stated as claimed): no analytical row is appended for a page or user
\* batch whose tx.Commit() failed or whose transaction was rolled back: when
\* such a flush ends, the analytical table holds no row of its messages.
C11_AnalyticalOnlyAfterCommit ==
    \A p \in Procs :
        (kind # "lead" /\ pc[p] = "unlock" /\ ret = "done" /\ commitErr = "err")
            => \A m \in LastBatch : BqOf(m) = {}

\* The lock holder's inserter.Put was given rows and returned an error.
PutFailed == Len(msgsToAck) > 0 /\ \A m \in Range(msgsToAck) : BqOf(m) = {}

\* C12 (stated as claimed): when tx.Commit() succeeded and inserter.Put
\* failed, the staged messages of the batch, which are relationally
\* committed, have been acknowledged when the flush ends.
C12_AckedDespitePutFailure ==
    \A p \in Procs :
        (kind # "lead" /\ pc[p] = "unlock" /\ ret = "done"
            /\ commitErr = "nil" /\ PutFailed)
            => \A m \in Range(msgsToAck) : acts[m] = <<"ack">>

\* C13 (stated as claimed): the statements of a page or user batch run inside
\* the batch's transaction: no step of the range loop changes the relational
\* table, and neither does a tx.Commit() that fails, so a batch whose
\* transaction does not commit has changed no relational row.
C13_BatchAtomic ==
    [][\A p \in Procs :
         (kind # "lead" /\ pc[p] \in {"loop", "commit"} /\ commitErr' # "nil")
            => db' = db]_vars

\* The processing of message m failed on its own account.
FailedAlone(m) ==
    dec[m].branch \in {"badjson", "badlocale", "lookuperr", "inserterr", "updateerr"}

\* Message m is the only one of its batch for its key.
OnlyOfKey(m) == \A n \in LastBatch \ {m} : data[n].key # data[m].key

\* C14 (stated as claimed): when a message of a page or user batch failed,
\* the staged messages of the batch have not been nacked, and a staged
\* message that has been acknowledged has its relational write committed.
C14_PartialFailureIsolated ==
    \A p \in Procs :
        (kind # "lead" /\ pc[p] = "unlock" /\ ret = "done"
            /\ \E n \in LastBatch : FailedAlone(n))
            => \A m \in Range(msgsToAck) :
                /\ "nack" \notin Range(acts[m])
                /\ ("ack" \in Range(acts[m]) /\ OnlyOfKey(m))
                        => db[data[m].key] = <<data[m].val>>

\* C15 (stated as claimed): a failed enrichment lookup (geo-IP, locale parse,
\* fetch of the current row) never ends the process, and the message it
\* failed for has been nacked.
C15_LookupErrorNonFatal ==
    /\ ~crashed
    /\ \A m \in 1..Len(data) :
        dec[m].branch \in {"fatal", "badlocale", "lookuperr"}
            => acts[m] = <<"nack">>

\* C16: the iteration of the range loop that meets a page whose detected language
\* disagrees with its locale acknowledges it, writes nothing (table,
\* transaction, staged rows, msgsToAck) and goes on to the next message with
\* the transaction as it was; the message keeps exactly that one Ack and
\* never gets an analytical row.
C16_MismatchAckedNotPersisted ==
    [][/\ \A p \in Procs :
            (kind = "page" /\ pc[p] = "loop" /\ idx' # idx
                /\ data[messages[idx]].shape = "mismatch")
            => /\ acts' = Ack(acts, messages[idx])
               /\ acts'[messages[idx]] = <<"ack">>
               /\ db' = db /\ txWrites' = txWrites /\ tx' = tx
               /\ rows' = rows /\ msgsToAck' = msgsToAck /\ bq' = bq
               /\ ~crashed'
               /\ pc'[p] = IF idx < Len(messages) THEN "loop" ELSE "commit"
       /\ \A m \in 1..Len(data) :
            (kind = "page" /\ dec[m].branch = "mismatch")
            => acts'[m] = <<"ack">> /\ BqOf(m)' = {}]_vars

\* A batch is done in which a mismatching page was acknowledged and the
\* page after it was inserted, committed and acknowledged.
C16_Witness ==
    /\ kind = "page" /\ ret = "done" /\ commitErr = "nil"
    /\ \E m, n \in LastBatch :
        /\ m < n
        /\ dec[m].branch = "mismatch" /\ acts[m] = <<"ack">> /\ BqOf(m) = {}
        /\ dec[n].branch = "insert" /\ acts[n] = <<"ack">> /\ BqOf(n) # {}
        /\ db[data[n].key] = <<data[n].val>>

\* C17 (stated as claimed): a message whose payload cannot be decoded, or a
\* page whose locale cannot be parsed, has been acknowledged (and never
\* nacked) when its flush has finished, and is persisted nowhere.
C17_MalformedAcked ==
    \A m \in 1..Len(data) :
        (dec[m].branch \in {"badjson", "badlocale"} /\ Flushed(m))
            => acts[m] = <<"ack">> /\ BqOf(m) = {}

\* Collector: the event names collectLeadEventDataHandler accepts.
allowedLeadEvents == {"page_view", "page_behavior"}

\* Collector: clientIp := ""; if leadEventData.Consent { clientIp =
\* getClientIP(r) }.
ClientIp(consent, remote) == IF consent THEN remote ELSE ""

\* Collector: the LeadEventDataPubSub that publishLeadEventData builds.
PublishLeadEventData(n, c, remote) == LeadVal(n, c, ClientIp(c, remote))

\* What the collector publishes for requests that come from a valid IPv4.
Collected ==
    {PublishLeadEventData(n, c, "198.51.100.7") :
        n \in allowedLeadEvents, c \in BOOLEAN}

\* The consumer called getIpLocation for message m.
GeoLookedUp(m) == dec[m].branch \in {"geo", "fatal"}

\* C18 (stated as claimed): for a lead event published by the collector, no
\* lookup is made and ip is empty when consent is false, and a lookup is made
\* when consent is true, whatever the event name; every analytical row of
\* the event carries the looked-up location with consent and empty ip and
\* location without.
C18_ConsentEndToEnd ==
    \A m \in 1..Len(data) :
        (kind = "lead" /\ data[m].shape = "ok" /\ data[m].val \in Collected
            /\ dec[m].branch # "none")
        => /\ GeoLookedUp(m) <=> data[m].val.consent
           /\ \A i \in BqOf(m) :
                IF data[m].val.consent
                THEN bq[i].loc = "geo" /\ bq[i].val.ip = "198.51.100.7"
                ELSE bq[i].loc = "" /\ bq[i].val.ip = ""

\* C19 (stated as claimed): the consumer calls getIpLocation for a decoded
\* message iff its consent flag is true and its ip is not empty.
C19_LookupIffConsentAndIp ==
    \A m \in 1..Len(data) :
        (kind = "lead" /\ data[m].shape = "ok" /\ dec[m].branch # "none")
        => (GeoLookedUp(m) <=> (data[m].val.consent /\ data[m].val.ip # ""))

\* The fraction x rounded to two decimals, in hundredths.
Round2(x) == (2 * 100 * x.n + x.d) \div (2 * x.d)

\* C20: an upsert that meets a row of its key leaves view_count = old + new
\* and sets the average to (old_avg + new_avg) / (old_count + new_count),
\* the counts being those before the update; (10, 50) merged with (5, 80)
\* gives (15, 8.67).  The equation is stated by cross-multiplication.
C20_RollupMerge ==
    (upsert.ok /\ upsert.old # <<>>) =>
        LET o == upsert.old[1]
            i == upsert.inc[1]
            r == rollup[upsert.cell][1]
        IN /\ r.count = o.count + i.count
           /\ r.avg.n * (o.count + i.count) * o.avg.d * i.avg.d
                = (o.avg.n * i.avg.d + i.avg.n * o.avg.d) * r.avg.d
           /\ (o.count = 10 /\ o.avg = Rat(50, 1) /\ i.count = 5
                /\ i.avg = Rat(80, 1))
                => r.count = 15 /\ Round2(r.avg) = 867

\* The row (10, 50) has been merged with (5, 80).
C20_Witness ==
    /\ upsert.ok /\ upsert.old = <<[count |-> 10, avg |-> Rat(50, 1)]>>
    /\ upsert.inc = <<[count |-> 5, avg |-> Rat(80, 1)]>>
    /\ rollup[upsert.cell] = <<[count |-> 15, avg |-> Rat(26, 3)]>>

\* C21: an upsert that meets a row of its key sets the average to the
\* count-weighted mean (old_avg * old_count + new_avg * new_count) /
\* (old_count + new_count) and the count to old + new.
C21_WeightedMeanMerge ==
    (upsert.ok /\ upsert.old # <<>>) =>
        LET o == upsert.old[1]
            i == upsert.inc[1]
            r == rollup[upsert.cell][1]
        IN /\ r.count = o.count + i.count
           /\ r.avg.n * (o.count + i.count) * o.avg.d * i.avg.d
                = (o.avg.n * o.count * i.avg.d + i.avg.n * i.count * o.avg.d)
                    * r.avg.d

\* C22: while a rollup row exists its count never decreases, whatever
\* statements run.
C22_CountMonotone ==
    [][\A c \in Cells :
        (rollup[c] # <<>> /\ rollup'[c] # <<>>)
            => rollup'[c][1].count >= rollup[c][1].count]_vars

\* A row has been merged twice and its count has grown each time.
C22_Witness ==
    /\ upsert.ok /\ upsert.old # <<>>
    /\ upsert.old[1].count > upsert.inc[1].count
    /\ rollup[upsert.cell][1].count > upsert.old[1].count

\* C29: a lead whose three windows have zero views has the score 0.
C29_NoActivityZero ==
    (score # <<>> /\ scoreIn.v = <<0, 0, 0>>) => score[1] = 0

\* The score of a lead without views has been computed.
C29_Witness == score = <<0>> /\ scoreIn.v = <<0, 0, 0>>

\* C30: a lead whose windows have the views (5, 5, 0) has the score -1,
\* whatever the averages of the windows.
C30_StalledMinusOne ==
    (score # <<>> /\ scoreIn.v = <<5, 5, 0>>) => score[1] = -100

\* C23: no task upserts into the rollup table in a run in which it has not
\* deleted the aged rows of its brand first.
C23_PurgeBeforeUpsert == \A b \in BrandSet : ups[b] > 0 => purged[b]

\* C24: when main has returned, every goroutine it started has finished.
C24_DriverWaits == dpc = "exited" => TasksOver

\* C25: a task that has logged a failure does no further upsert in that run.
C25_FailedTaskStops ==
    [][\A b \in BrandSet : (failed[b] /\ run' = run) => ups'[b] = ups[b]]_vars

\* C27: a second complete run over the same window leaves every rollup row
\* as the first complete run left it.
C27_RerunIdempotent ==
    (run > 1 /\ dpc = "exited" /\ clean /\ TasksOver /\ prev[1].complete)
        => table = prev[1].table

\* C26: a step of the task of brand X adds or removes only rows of brand X.
C26_BrandPartitioned ==
    [][\A b \in BrandSet :
        tpc'[b] # tpc[b]
            => \A r \in (cba \ cba') \cup (cba' \ cba) : r.brand = b]_vars

\* C28: after a run of the similarity job every stored row has its reverse
\* stored with the same score.
C28_SymmetricPairs ==
    (dpc = "exited" /\ TasksOver)
        => \A r \in cba :
            Row(r.brand, r.article_url_2, r.article_url_1) \in cba

\* C31: the score returned lies in [-1, 1] for every views triple and
\* every triple of averages.
C31_ScoreClamped == score # <<>> => (score[1] >= -100 /\ score[1] <= 100)

\* A quotient above 1 has been clamped to 1.
C31_Witness ==
    /\ score = <<100>>
    /\ ScoreBranch(scoreIn) = "general"
    /\ WeightedDelta(scoreIn) > 2 * 1000 * TotalViews(scoreIn)

\* s is x / y (y > 0) rounded to an integer and clamped to [-100, 100].
RoundedClamped(s, x, y) ==
    /\ s >= -100 /\ s <= 100
    /\ s < 100 => 2 * (x - s * y) <= y
    /\ s > -100 => 2 * (s * y - x) <= y

\* C32: outside the cases no activity in any window (score 0) and activity
\* stalled in the two most recent windows (score -1) the score is the
\* weighted delta over the total views, rounded to two decimals and clamped.
C32_WeightedDeltaFormula ==
    (/\ score # <<>>
     /\ scoreIn.v # <<0, 0, 0>>
     /\ ~(scoreIn.v[2] = 0 /\ scoreIn.v[3] = 0))
        => RoundedClamped(score[1], WeightedDelta(scoreIn),
                          10 * TotalViews(scoreIn))

\* C33: no quotient is taken over a zero sum of view counts: an upsert that
\* meets a row has old_count + new_count > 0, and the score takes its
\* general branch only when v1 + v2 + v3 > 0.
C33_NoZeroDivisor ==
    /\ upsert.old # <<>> => upsert.old[1].count + upsert.inc[1].count > 0
    /\ (score # <<>> /\ ScoreBranch(scoreIn) = "general")
            => TotalViews(scoreIn) > 0

\* A merge has divided by its summed counts and a score has been computed
\* in the general branch.
C33_Witness ==
    /\ upsert.ok /\ upsert.old # <<>>
    /\ score # <<>> /\ ScoreBranch(scoreIn) = "general"

\* C34: a message in the buffer when a tick takes the lock has been processed
\* by a flush and removed from the buffer when that tick is over, also when
\* the flush could not open its transaction.
C34_FlushedByNextTick ==
    pc[TimerProc] = "reset"
        => \A i \in 1..Len(tick.lock) : tick.lock[i] \notin Range(messages)

\* C35: every task terminates whatever its external calls return, so
\* wg.Wait() returns and the job process exits.
C35_JobTerminates == <>(dpc = "exited")

\* C36: after one run of the top_articles task without error on an empty
\* table, every row has the view_count the query returned for its url.
C36_TopCountedOnce ==
    (top.pc = "done" /\ ~top.failed)
        => \A u \in RollupKeys :
            /\ rollup[TopCell(u)] # <<>>
            /\ rollup[TopCell(u)][1].count = top.articles[u].count

\* The view count the query returned for lead u, 0 if none.
ReturnedCount(u) ==
    IF \E i \in 1..Len(lav.rows) : lav.rows[i].lead = u
    THEN (CHOOSE r \in Range(lav.rows) : r.lead = u).count
    ELSE 0

\* C37: when the task of a brand is over, either a step after the DELETE
\* has failed and no current view count of the brand differs from before
\* the run, or every returned count has been added exactly once.
C37_BrandAtomic ==
    lav.pc = "done" =>
        \A u \in Leads :
            lav.table[<<u, "cur">>] =
                lav.before[<<u, "cur">>]
                    + (IF lav.failed THEN 0 ELSE ReturnedCount(u))

\* A run over two rows has failed after its first insert and has left the
\* current view counts as they were.
C37_Witness ==
    /\ lav.pc = "done" /\ lav.execs >= 1
    /\ lav.failed
    /\ Len(lav.rows) = 2
    /\ lav.table = [lav.before EXCEPT ![<<"l1", "old">>] = 0]

\* C38: of concurrent lead-event requests with the same cache key within
\* the TTL, at most one is published.
C38_LeadPublishedOnce == coll.handler = "lead" => coll.published <= 1

\* C39: the page and user collectors suppress a submission only when an
\* identical one has been published: after a failed publish the next one
\* is published again.
C39_SuppressedOnlyAfterPublish ==
    coll.handler \in {"page", "user"}
        => \A q \in Reqs : coll.out[q] = "suppressed" => coll.published > 0

====
